---------------------------- MODULE Spec2Model ----------------------------
(***************************************************************************)
(* Dataset entity and lifecycle of the zfs package (src/dataset.go,        *)
(* src/zfs/destroy.go).                                                    *)
(*                                                                         *)
(* Dataset names are TLA+ strings.  A Go error is a string, "" being nil.  *)
(* A Go pointer result is a sequence: <<>> is nil, <<v>> points at v.      *)
(* The native layer (list, create, snapshot, rollback, ioctl) is not part  *)
(* of the sources at hand; it is modelled from its documented interface.   *)
(***************************************************************************)
EXTENDS Integers, Sequences, FiniteSets, TLC

VARIABLES
    op,        \* the last completed non-recursive operation: input, native calls, result
    exists,    \* backing store: the names of the datasets that exist
    origin,    \* backing store: name -> origin snapshot of a clone, "" otherwise
    stack,     \* caller -> call stack of Dataset.Destroy frames (top is last)
    result,    \* caller -> "idle", "running", "ok", "panic" or the error returned
    root,      \* caller -> the dataset the caller's Destroy was invoked on
    opts,      \* caller -> DestroyOptions of the caller's Destroy
    log,       \* caller -> the native calls its call issued so far, in order
    faults,    \* number of injected boundary failures so far
    callers,   \* the callers that may call into the package in this run
    req        \* caller -> the call it made: function, handle, new name, dataset returned

vars == <<op, exists, origin, stack, result, root, opts, log, faults, callers, req>>
destroyVars == <<exists, origin, stack, result, root, opts, log, faults, callers, req>>

(***************************************************************************)
(* Bounds.                                                                 *)
(***************************************************************************)
\* longest listing the native layer hands to GetDataset / Children in SpecOps
MaxList == 2
\* boundary failures injected into one run of the destroy machine
MaxFaults == 1

(***************************************************************************)
(* Constants of the program.                                               *)
(***************************************************************************)
DatasetFilesystem == "filesystem"
DatasetSnapshot == "snapshot"
DatasetVolume == "volume"
\* dmuType values of the native layer
dmuZFS == "DMU_OST_ZFS"
dmuZVOL == "DMU_OST_ZVOL"
\* dmuTypes["zvol"]
dmuTypesZvol == dmuZVOL

(***************************************************************************)
(* Strings.                                                                *)
(***************************************************************************)
\* strconv-style decimal rendering of the small naturals that occur
IntStr(n) ==
    CASE n = 0 -> "0" [] n = 1 -> "1" [] n = 2 -> "2" [] n = 3 -> "3"
      [] n = 4 -> "4" [] n = 5 -> "5" [] n = 6 -> "6" [] n = 7 -> "7"
      [] n = 8 -> "8" [] n = 9 -> "9" [] OTHER -> "many"

\* strings.Index(s, c) for a one-character c, 1-based; 0 when absent
RECURSIVE IndexFrom(_, _, _)
IndexFrom(s, c, i) ==
    IF i > Len(s) THEN 0
    ELSE IF SubSeq(s, i, i) = c THEN i
    ELSE IndexFrom(s, c, i + 1)

Contains(s, c) == IndexFrom(s, c, 1) # 0

\* strings.Split(s, "/")
RECURSIVE Split(_)
Split(s) ==
    LET i == IndexFrom(s, "/", 1)
    IN  IF i = 0 THEN <<s>>
        ELSE <<SubSeq(s, 1, i - 1)>> \o Split(SubSeq(s, i + 1, Len(s)))

(***************************************************************************)
(* dsToDataset: a raw record (ds) to the Dataset entity.                   *)
(***************************************************************************)
dsToDataset(in) ==
    LET dsType == IF in.IsSnapshot THEN DatasetSnapshot
                  ELSE IF in.Type = dmuTypesZvol THEN DatasetVolume
                  ELSE DatasetFilesystem
        compression == IF in.Compression = "" THEN "off" ELSE in.Compression
        mountpoint == IF in.Mountpoint = "" /\ dsType # DatasetSnapshot
                      THEN "/" \o in.Name
                      ELSE in.Mountpoint
    IN  [Name |-> in.Name, Origin |-> in.Origin, Used |-> in.Used,
         Avail |-> in.Available, Mountpoint |-> mountpoint,
         Compression |-> compression, Type |-> dsType,
         Written |-> in.Available, Volsize |-> in.Volsize,
         ds |-> in]

(***************************************************************************)
(* getDatasets, GetDataset, Children: lr is what the native list call      *)
(* returned, [err |-> error, dss |-> sequence of raw records].             *)
(***************************************************************************)
getDatasets(lr) ==
    IF lr.err # "" THEN [err |-> lr.err, datasets |-> <<>>]
    ELSE [err |-> "", datasets |-> [i \in 1..Len(lr.dss) |-> dsToDataset(lr.dss[i])]]

\* fmt.Errorf("expected 1 dataset, got %s", len(datasets)): %s of an int
CountError(n) == "expected 1 dataset, got %!s(int=" \o IntStr(n) \o ")"

\* variant: the first record is taken whenever there is one
GetDataset_PickFirst(lr) ==
    LET r == getDatasets(lr)
    IN  IF r.err # "" THEN [err |-> r.err, val |-> <<>>]
        ELSE IF Len(r.datasets) = 0
        THEN [err |-> CountError(0), val |-> <<>>]
        ELSE [err |-> "", val |-> <<r.datasets[1]>>]

GetDataset(lr) ==
    LET r == getDatasets(lr)
    IN  IF r.err # "" THEN [err |-> r.err, val |-> <<>>]
        ELSE IF Len(r.datasets) # 1
        THEN [err |-> CountError(Len(r.datasets)), val |-> <<>>]
        ELSE [err |-> "", val |-> <<r.datasets[1]>>]

(***************************************************************************)
(* Native calls.  A call is [fn, target, args]: the native function        *)
(* invoked, the dataset or pool it names, and its remaining arguments.     *)
(***************************************************************************)
NoProps == [k \in {} |-> ""]

\* destroy (src/zfs/destroy.go): the command map handed to ioctl on `name`
destroy(name, deferFlag) ==
    [fn |-> "destroy", target |-> name,
     args |-> [cmd |-> "zfs_destroy", version |-> 0, defer |-> deferFlag]]

listCall(name, dsType, recurse, depth) ==
    [fn |-> "list", target |-> name,
     args |-> [types |-> {dsType}, recurse |-> recurse, depth |-> depth]]

\* d.Children(depth): getDatasets(d.Name, "all", true, depth), then
\* datasets[1:], which panics on an empty slice (panic |-> TRUE)
Children(d, depth, lr) ==
    LET r == getDatasets(lr)
        call == listCall(d.Name, "all", TRUE, depth)
    IN  IF r.err # ""
        THEN [native |-> <<call>>, err |-> r.err, panic |-> FALSE, datasets |-> <<>>]
        ELSE IF Len(r.datasets) = 0
        THEN [native |-> <<call>>, err |-> "", panic |-> TRUE, datasets |-> <<>>]
        ELSE [native |-> <<call>>, err |-> "", panic |-> FALSE,
              datasets |-> Tail(r.datasets)]

(***************************************************************************)
(* createDataset, CreateFilesystem, CreateVolume.  createErr is what the   *)
(* native create returned, lr what the following list returned.            *)
(***************************************************************************)
createDataset(name, createType, properties, createErr, lr) ==
    LET c == [fn |-> "create", target |-> name,
              args |-> [type |-> dmuZFS, props |-> properties]]
        g == GetDataset(lr)
    IN  IF createErr # ""
        THEN [native |-> <<c>>, err |-> createErr, val |-> <<>>]
        ELSE [native |-> <<c, listCall(name, "all", FALSE, 0)>>,
              err |-> g.err, val |-> g.val]

CreateFilesystem(name, properties, createErr, lr) ==
    createDataset(name, dmuZFS, properties, createErr, lr)

CreateVolume(name, size, properties, createErr, lr) ==
    LET withSize == [k \in DOMAIN properties \cup {"volsize"} |->
                        IF k = "volsize" THEN size ELSE properties[k]]
    IN  createDataset(name, dmuZVOL, withSize, createErr, lr)

(***************************************************************************)
(* Dataset.Clone.  cloneErr is what the native clone returned, lr what the *)
(* following list returned.                                                *)
(***************************************************************************)
Clone(d, name, properties, cloneErr, lr) ==
    LET c == [fn |-> "clone", target |-> name,
              args |-> [origin |-> d.Name, props |-> properties]]
        g == GetDataset(lr)
    IN  IF cloneErr # ""
        THEN [native |-> <<c>>, err |-> cloneErr, val |-> <<>>]
        ELSE [native |-> <<c, listCall(name, "all", FALSE, 0)>>,
              err |-> g.err, val |-> g.val]

(***************************************************************************)
(* Rollback and Snapshot.  nativeErr is what the native call returned.     *)
(***************************************************************************)
Rollback(d, destroyMoreRecent, nativeErr) ==
    [native |-> <<[fn |-> "rollback", target |-> d.Name, args |-> <<>>]>>,
     err |-> nativeErr]

\* variant: the snapshot is named after the pool alone
Snapshot_PoolOnly(d, name, recursive, nativeErr) ==
    LET zpool == Split(d.Name)[1]
        snapName == zpool \o "@" \o name
    IN  [native |-> <<[fn |-> "snapshot", target |-> zpool,
                       args |-> [snaps |-> <<snapName>>, props |-> NoProps]]>>,
         err |-> nativeErr]

Snapshot(d, name, recursive, nativeErr) ==
    LET zpool == Split(d.Name)[1]
        snapName == d.Name \o "@" \o name
    IN  [native |-> <<[fn |-> "snapshot", target |-> zpool,
                       args |-> [snaps |-> <<snapName>>, props |-> NoProps]]>>,
         err |-> nativeErr]

(***************************************************************************)
(* Inputs of the single-call operations.                                   *)
(***************************************************************************)
OpNames == {"tank", "tank/data", "pool/fs", "pool/fs@snap"}

RawRecord(n, t, mp, comp) ==
    [Name |-> n, IsSnapshot |-> Contains(n, "@"), Type |-> t,
     Mountpoint |-> mp, Compression |-> comp, Origin |-> "",
     Used |-> 0, Available |-> 1, Written |-> 2, Volsize |-> 0,
     Clones |-> {}]

RawRecords ==
    {RawRecord(n, t, mp, comp) :
        n \in OpNames, t \in {dmuZFS, dmuZVOL},
        mp \in {"", "/mnt"}, comp \in {"", "lz4"}}

\* what a listing is made of
ListRecords == {RawRecord(n, dmuZFS, "", "") : n \in {"pool/fs", "pool/fs/a", "pool/fs@snap"}}

SeqsUpTo(S, n) == UNION {[1..k -> S] : k \in 0..n}

ListResults ==
    {[err |-> "", dss |-> l] : l \in SeqsUpTo(ListRecords, MaxList)}
        \cup {[err |-> "ENOENT", dss |-> <<>>]}

NativeErrs == {"", "EBUSY"}

\* a native call that is followed by a lookup: the call fails and no list is
\* issued, or it succeeds and the list returns lr
NoList == [err |-> "", dss |-> <<>>]
CallThenList ==
    {[err |-> e, lr |-> NoList] : e \in NativeErrs \ {""}}
        \cup {[err |-> "", lr |-> lr] : lr \in ListResults}

\* the handles Clone is called on
CloneSources == {RawRecord(n, dmuZFS, "", "") : n \in {"pool/fs", "pool/fs@snap"}}
SnapNames == {"weekly", "s"}
PropMaps == {NoProps, [compression |-> "lz4"], [volsize |-> 9]}
Sizes == {1, 2}
Depths == {0, 1}

(***************************************************************************)
(* The single-call operations as actions: each leaves its input and what   *)
(* it returned in op.                                                      *)
(***************************************************************************)
InitOp == op = [name |-> "none", in |-> <<>>, out |-> <<>>]

DoNormalize ==
    \E in \in RawRecords :
        op' = [name |-> "dsToDataset", in |-> in, out |-> dsToDataset(in)]

DoGetDataset ==
    \E lr \in ListResults :
        op' = [name |-> "GetDataset", in |-> lr, out |-> GetDataset(lr)]

DoChildren ==
    \E d \in ListRecords, depth \in Depths, lr \in ListResults :
        op' = [name |-> "Children",
               in |-> [d |-> dsToDataset(d), depth |-> depth, lr |-> lr],
               out |-> Children(dsToDataset(d), depth, lr)]

DoCreateFilesystem ==
    \E n \in OpNames, p \in PropMaps, o \in CallThenList :
        op' = [name |-> "CreateFilesystem",
               in |-> [name |-> n, props |-> p, createErr |-> o.err, lr |-> o.lr],
               out |-> CreateFilesystem(n, p, o.err, o.lr)]

DoCreateVolume ==
    \E n \in OpNames, s \in Sizes, p \in PropMaps, o \in CallThenList :
        op' = [name |-> "CreateVolume",
               in |-> [name |-> n, size |-> s, props |-> p,
                       createErr |-> o.err, lr |-> o.lr],
               out |-> CreateVolume(n, s, p, o.err, o.lr)]

DoClone ==
    \E d \in CloneSources, n \in OpNames, p \in PropMaps, o \in CallThenList :
        op' = [name |-> "Clone",
               in |-> [d |-> dsToDataset(d), name |-> n, props |-> p,
                       cloneErr |-> o.err, lr |-> o.lr],
               out |-> Clone(dsToDataset(d), n, p, o.err, o.lr)]

DoRollback ==
    \E in \in RawRecords, b \in BOOLEAN, e \in NativeErrs :
        op' = [name |-> "Rollback",
               in |-> [d |-> dsToDataset(in), destroyMoreRecent |-> b, nativeErr |-> e],
               out |-> Rollback(dsToDataset(in), b, e)]

DoSnapshot ==
    \E in \in RawRecords, n \in SnapNames, b \in BOOLEAN, e \in NativeErrs :
        op' = [name |-> "Snapshot",
               in |-> [d |-> dsToDataset(in), name |-> n, recursive |-> b, nativeErr |-> e],
               out |-> Snapshot(dsToDataset(in), n, b, e)]

(***************************************************************************)
(* The backing store behind the native layer, for Destroy.                 *)
(***************************************************************************)
Callers == {"A", "B"}
Names == {"p/a", "p/a@s", "p/a/b", "p/c"}
Snaps == {n \in Names : Contains(n, "@")}

\* index of the last occurrence of c in s, 0 when absent
RECURSIVE LastIndex(_, _, _)
LastIndex(s, c, i) ==
    IF i = 0 THEN 0
    ELSE IF SubSeq(s, i, i) = c THEN i
    ELSE LastIndex(s, c, i - 1)

\* the dataset a name hangs under: pool/a@s under pool/a, pool/a/b under pool/a
Parent(n) ==
    LET at == IndexFrom(n, "@", 1)
        sl == LastIndex(n, "/", Len(n))
    IN  IF at # 0 THEN SubSeq(n, 1, at - 1)
        ELSE IF sl # 0 THEN SubSeq(n, 1, sl - 1)
        ELSE ""

ChildrenOf(n, ex) == {m \in ex : Parent(m) = n}
ClonesOf(n, ex, org) == {m \in ex : org[m] = n}

\* the raw record the native list decodes for n
RawOf(n, ex, org) ==
    [Name |-> n, IsSnapshot |-> Contains(n, "@"), Type |-> dmuZFS,
     Mountpoint |-> "", Compression |-> "", Origin |-> org[n],
     Used |-> 0, Available |-> 1, Written |-> 2, Volsize |-> 0,
     Clones |-> ClonesOf(n, ex, org)]

Perms(S) ==
    {p \in [1..Cardinality(S) -> S] : \A i, j \in DOMAIN p : i # j => p[i] # p[j]}

\* what list(name, {"all"}, recurse, depth) can return: the root first, then
\* (depth 1) what hangs directly under it, in the order the kernel walks them.
\* For a name that is gone the boundary reports not-found or yields no record.
ListOutcomes(n, recurse, ex, org) ==
    IF n \notin ex
    THEN {[err |-> "ENOENT", dss |-> <<>>], [err |-> "", dss |-> <<>>]}
    ELSE LET below == IF recurse THEN ChildrenOf(n, ex) ELSE {}
         IN  {[err |-> "",
               dss |-> <<RawOf(n, ex, org)>> \o [i \in DOMAIN p |-> RawOf(p[i], ex, org)]] :
                  p \in Perms(below)}

\* what the native destroy of n returns; the defer flag's postponement of a
\* still-referenced snapshot is outside the model, which refuses it
DestroyOutcome(n, ex, org) ==
    IF n \notin ex THEN "ENOENT"
    ELSE IF ChildrenOf(n, ex) # {} \/ ClonesOf(n, ex, org) # {} THEN "EBUSY"
    ELSE ""

\* what the native create of n returns
CreateOutcome(n, ex) ==
    IF Contains(n, "@") THEN "EINVAL"
    ELSE IF n \in ex THEN "EEXIST"
    ELSE IF Parent(n) \notin ex \cup {"p"} THEN "ENOENT"
    ELSE ""

\* what the native clone of snapshot s into n returns
CloneOutcome(n, s, ex) ==
    IF s \notin ex THEN "ENOENT"
    ELSE IF ~Contains(s, "@") THEN "EINVAL"
    ELSE CreateOutcome(n, ex)

\* what the native snapshot of sn returns
SnapshotOutcome(sn, ex) ==
    IF Parent(sn) \notin ex THEN "ENOENT"
    ELSE IF sn \in ex THEN "EEXIST"
    ELSE ""

\* an injected boundary failure
Injected == "EIO"

(***************************************************************************)
(* Dataset.Destroy as a machine.  Each caller runs one Destroy; a frame is *)
(* one activation of Destroy on dataset d.  Every native call is one step, *)
(* so that the calls of two callers interleave as they can at the kernel.  *)
(*   pc: "start" before the children are listed, "children" in the loop    *)
(*       over them, "clones" in the loop over the clone map, "self" before *)
(*       the native destroy.                                               *)
(*   listed, since: what Children returned to this activation and the      *)
(*       length of the caller's log when it began (history, read by no     *)
(*       step).                                                            *)
(***************************************************************************)
DestroyOptions ==
    [Recursive : BOOLEAN, RecursiveClones : BOOLEAN,
     ForceUnmount : {FALSE}, Defer : BOOLEAN]

Frame(d, at) ==
    [d |-> d, pc |-> "start", children |-> <<>>, clones |-> d.ds.Clones,
     listed |-> {}, since |-> at]

Top(st) == st[Len(st)]
SetTop(st, f) == [st EXCEPT ![Len(st)] = f]
Pop(st) == SubSeq(st, 1, Len(st) - 1)

Entry(c, call, err, fail, f) ==
    [caller |-> c, call |-> call, err |-> err, fail |-> fail,
     listed |-> f.listed, cloneMap |-> f.d.ds.Clones, since |-> f.since]

\* variant: the loop that called the failing activation drops its error
Unwind_Swallow(st, err) ==
    IF Len(st) > 1 THEN [stack |-> Pop(st), result |-> "running"]
    ELSE [stack |-> <<>>, result |-> err]

\* `if err != nil { return err }` in every enclosing activation
Unwind(st, err) == [stack |-> <<>>, result |-> err]

\* the activation returns nil to the loop that called it, or to the caller
Return(st) ==
    [stack |-> Pop(st), result |-> IF Len(st) = 1 THEN "ok" ELSE "running"]

\* variant: the clone map is never walked
CloneLoop_Skip(o, f) == {}

\* the clone names the loop over d.ds.Properties.Clones.Value has yet to visit
CloneLoop(o, f) == IF o.RecursiveClones THEN f.clones ELSE {}

\* the outcomes of a native list / destroy, an injected failure included
MayInject == IF faults < MaxFaults THEN {Injected} ELSE {}

ListResultsOf(n, recurse) ==
    ListOutcomes(n, recurse, exists, origin)
        \cup {[err |-> e, dss |-> <<>>] : e \in MayInject}

DestroyResultsOf(n) == {DestroyOutcome(n, exists, origin)} \cup MayInject

Counted(e) == IF e = Injected THEN faults + 1 ELSE faults

Running(c) == c \in callers /\ result[c] = "running" /\ stack[c] # <<>>

NoReq == [fn |-> "", src |-> "", name |-> "", val |-> <<>>]

\* the caller looks its dataset up and calls Destroy(opts) on the handle
Invoke(c) ==
    /\ c \in callers /\ result[c] = "idle"
    /\ \E n \in exists, o \in DestroyOptions :
         /\ root' = [root EXCEPT ![c] = n]
         /\ opts' = [opts EXCEPT ![c] = o]
         /\ stack' = [stack EXCEPT ![c] =
                        <<Frame(dsToDataset(RawOf(n, exists, origin)), Len(log[c]))>>]
    /\ result' = [result EXCEPT ![c] = "running"]
    /\ req' = [req EXCEPT ![c] = [NoReq EXCEPT !.fn = "Destroy"]]
    /\ UNCHANGED <<op, exists, origin, log, faults, callers>>

\* children, err := d.Children(1)
ListChildren(c) ==
    /\ Running(c) /\ Top(stack[c]).pc = "start" /\ opts[c].Recursive
    /\ LET st == stack[c]
           f == Top(st)
       IN  \E lr \in ListResultsOf(f.d.Name, TRUE) :
             LET r == Children(f.d, 1, lr)
                 u == Unwind(st, r.err)
             IN  /\ log' = [log EXCEPT ![c] = Append(@, Entry(c, r.native[1], lr.err, r.err, f))]
                 /\ faults' = Counted(lr.err)
                 /\ IF r.err # ""
                    THEN /\ stack' = [stack EXCEPT ![c] = u.stack]
                         /\ result' = [result EXCEPT ![c] = u.result]
                    ELSE IF r.panic
                    THEN /\ stack' = [stack EXCEPT ![c] = <<>>]
                         /\ result' = [result EXCEPT ![c] = "panic"]
                    ELSE /\ stack' = [stack EXCEPT ![c] = SetTop(st,
                                [f EXCEPT !.pc = "children",
                                          !.children = r.datasets,
                                          !.listed = {r.datasets[i].Name :
                                                        i \in DOMAIN r.datasets}])]
                         /\ UNCHANGED result
    /\ UNCHANGED <<op, exists, origin, root, opts, callers, req>>

\* opts.Recursive is false
SkipChildren(c) ==
    /\ Running(c) /\ Top(stack[c]).pc = "start" /\ ~opts[c].Recursive
    /\ stack' = [stack EXCEPT ![c] = SetTop(@, [Top(@) EXCEPT !.pc = "clones"])]
    /\ UNCHANGED <<op, exists, origin, result, root, opts, log, faults, callers, req>>

\* child.Destroy(opts) for the next child
EnterChild(c) ==
    /\ Running(c) /\ Top(stack[c]).pc = "children" /\ Top(stack[c]).children # <<>>
    /\ LET st == stack[c]
           f == Top(st)
       IN  stack' = [stack EXCEPT ![c] =
                Append(SetTop(st, [f EXCEPT !.children = Tail(@)]),
                       Frame(Head(f.children), Len(log[c])))]
    /\ UNCHANGED <<op, exists, origin, result, root, opts, log, faults, callers, req>>

\* the loop over the children is over
ChildrenDone(c) ==
    /\ Running(c) /\ Top(stack[c]).pc = "children" /\ Top(stack[c]).children = <<>>
    /\ stack' = [stack EXCEPT ![c] = SetTop(@, [Top(@) EXCEPT !.pc = "clones"])]
    /\ UNCHANGED <<op, exists, origin, result, root, opts, log, faults, callers, req>>

\* clone, err := GetDataset(cloneName), then clone.Destroy(opts); a Go map
\* is ranged over in no fixed order
FetchClone(c) ==
    /\ Running(c) /\ Top(stack[c]).pc = "clones"
    /\ LET st == stack[c]
           f == Top(st)
       IN  \E cn \in CloneLoop(opts[c], f) :
           \E lr \in ListResultsOf(cn, FALSE) :
             LET g == GetDataset(lr)
                 u == Unwind(st, g.err)
             IN  /\ log' = [log EXCEPT ![c] =
                            Append(@, Entry(c, listCall(cn, "all", FALSE, 0), lr.err, g.err, f))]
                 /\ faults' = Counted(lr.err)
                 /\ IF g.err # ""
                    THEN /\ stack' = [stack EXCEPT ![c] = u.stack]
                         /\ result' = [result EXCEPT ![c] = u.result]
                    ELSE /\ stack' = [stack EXCEPT ![c] =
                                Append(SetTop(st, [f EXCEPT !.clones = @ \ {cn}]),
                                       Frame(g.val[1], Len(log[c]) + 1))]
                         /\ UNCHANGED result
    /\ UNCHANGED <<op, exists, origin, root, opts, callers, req>>

\* the loop over the clones is over, or opts.RecursiveClones is false
ClonesDone(c) ==
    /\ Running(c) /\ Top(stack[c]).pc = "clones"
    /\ CloneLoop(opts[c], Top(stack[c])) = {}
    /\ stack' = [stack EXCEPT ![c] = SetTop(@, [Top(@) EXCEPT !.pc = "self"])]
    /\ UNCHANGED <<op, exists, origin, result, root, opts, log, faults, callers, req>>

\* return destroy(d.Name, opts.Defer)
DestroySelf(c) ==
    /\ Running(c) /\ Top(stack[c]).pc = "self"
    /\ LET st == stack[c]
           f == Top(st)
       IN  \E e \in DestroyResultsOf(f.d.Name) :
             LET nxt == IF e # "" THEN Unwind(st, e) ELSE Return(st)
             IN  /\ log' = [log EXCEPT ![c] =
                            Append(@, Entry(c, destroy(f.d.Name, opts[c].Defer), e, e, f))]
                 /\ faults' = Counted(e)
                 /\ exists' = IF e = "" THEN exists \ {f.d.Name} ELSE exists
                 /\ stack' = [stack EXCEPT ![c] = nxt.stack]
                 /\ result' = [result EXCEPT ![c] = nxt.result]
    /\ UNCHANGED <<op, origin, root, opts, callers, req>>

(***************************************************************************)
(* The calls that add to the store, run against it by a caller: Clone,     *)
(* CreateFilesystem, CreateVolume (a native call, then GetDataset of the   *)
(* new name, each one step) and Snapshot (one native call).  A handle may  *)
(* name a dataset that is gone by the time of the call.                    *)
(***************************************************************************)
OpEntry(c, call, err, fail) ==
    [caller |-> c, call |-> call, err |-> err, fail |-> fail,
     listed |-> {}, cloneMap |-> {}, since |-> 0]

Handle(n) == dsToDataset(RawOf(n, exists, origin))

\* the store after n came to be, with origin o
Added(n, o) == [exists |-> exists \cup {n}, origin |-> [origin EXCEPT ![n] = o]]

\* the first half of a call that creates n: its native call is logged and
\* either fails the call (if err != nil { return nil, err }) or leaves the
\* lookup of n to come, nothing having failed yet
Begun(c, fn, src, n, r, e, o) ==
    /\ log' = [log EXCEPT ![c] =
                  Append(@, OpEntry(c, r.native[1], e, IF e # "" THEN r.err ELSE ""))]
    /\ faults' = Counted(e)
    /\ req' = [req EXCEPT ![c] = [fn |-> fn, src |-> src, name |-> n, val |-> <<>>]]
    /\ result' = [result EXCEPT ![c] = IF e # "" THEN r.err ELSE "running"]
    /\ exists' = IF e = "" THEN Added(n, o).exists ELSE exists
    /\ origin' = IF e = "" THEN Added(n, o).origin ELSE origin
    /\ UNCHANGED <<op, stack, root, opts, callers>>

\* d.Clone(name, properties): clone(name, d.Name, properties)
CloneNative(c) ==
    /\ c \in callers /\ result[c] = "idle"
    /\ \E s \in Names, n \in Names :
       \E e \in {CloneOutcome(n, s, exists)} \cup MayInject :
          Begun(c, "Clone", s, n, Clone(Handle(s), n, NoProps, e, NoList), e, s)

\* CreateFilesystem(name, properties): create(name, dmuZFS, properties)
CreateFilesystemNative(c) ==
    /\ c \in callers /\ result[c] = "idle"
    /\ \E n \in Names :
       \E e \in {CreateOutcome(n, exists)} \cup MayInject :
          Begun(c, "CreateFilesystem", "", n, CreateFilesystem(n, NoProps, e, NoList), e, "")

\* CreateVolume(name, size, properties): create(name, dmuZFS, properties)
CreateVolumeNative(c) ==
    /\ c \in callers /\ result[c] = "idle"
    /\ \E n \in Names, sz \in Sizes :
       \E e \in {CreateOutcome(n, exists)} \cup MayInject :
          Begun(c, "CreateVolume", "", n, CreateVolume(n, sz, NoProps, e, NoList), e, "")

\* return GetDataset(name), the second half of Clone and of createDataset
LookupNew(c) ==
    /\ c \in callers /\ result[c] = "running"
    /\ req[c].fn \in {"Clone", "CreateFilesystem", "CreateVolume"}
    /\ \E lr \in ListResultsOf(req[c].name, FALSE) :
         LET g == GetDataset(lr)
         IN  /\ log' = [log EXCEPT ![c] = Append(@,
                           OpEntry(c, listCall(req[c].name, "all", FALSE, 0), lr.err, g.err))]
             /\ faults' = Counted(lr.err)
             /\ req' = [req EXCEPT ![c].val = g.val]
             /\ result' = [result EXCEPT ![c] = IF g.err # "" THEN g.err ELSE "ok"]
    /\ UNCHANGED <<op, exists, origin, stack, root, opts, callers>>

\* d.Snapshot(name, recursive), for the handles whose snapshot the store knows
TakeSnapshot(c) ==
    /\ c \in callers /\ result[c] = "idle"
    /\ \E n \in Names, sn \in SnapNames, rec \in BOOLEAN :
         /\ (n \o "@" \o sn) \in Names
         /\ \E e \in {SnapshotOutcome(n \o "@" \o sn, exists)} \cup MayInject :
              LET r == Snapshot(Handle(n), sn, rec, e)
                  made == r.native[1].args.snaps[1]
              IN  /\ log' = [log EXCEPT ![c] = Append(@, OpEntry(c, r.native[1], e, r.err))]
                  /\ faults' = Counted(e)
                  /\ req' = [req EXCEPT ![c] =
                                [fn |-> "Snapshot", src |-> n, name |-> sn, val |-> <<>>]]
                  /\ result' = [result EXCEPT ![c] = IF r.err # "" THEN r.err ELSE "ok"]
                  /\ exists' = IF e = "" THEN Added(made, "").exists ELSE exists
                  /\ origin' = IF e = "" THEN Added(made, "").origin ELSE origin
    /\ UNCHANGED <<op, stack, root, opts, callers>>

(***************************************************************************)
(* Specifications.                                                         *)
(***************************************************************************)
\* a store the program can be in: what exists has its parent, a clone has
\* its origin snapshot, and only a dataset outside a snapshot's own
\* filesystem line is recorded as its clone
Stores ==
    {s \in [exists : SUBSET Names, origin : [Names -> Snaps \cup {""}]] :
        /\ \A n \in s.exists : Parent(n) \in s.exists \cup {"p"}
        /\ \A n \in Names :
             s.origin[n] # "" =>
                /\ n \in s.exists /\ s.origin[n] \in s.exists
                /\ ~Contains(n, "@") /\ n # Parent(s.origin[n])}

InitIdle ==
    /\ stack = [c \in Callers |-> <<>>]
    /\ result = [c \in Callers |-> "idle"]
    /\ root = [c \in Callers |-> ""]
    /\ opts = [c \in Callers |-> [Recursive |-> FALSE, RecursiveClones |-> FALSE,
                                  ForceUnmount |-> FALSE, Defer |-> FALSE]]
    /\ log = [c \in Callers |-> <<>>]
    /\ faults = 0
    /\ req = [c \in Callers |-> NoReq]

\* the single-call operations on their own
Init ==
    /\ InitOp /\ InitIdle
    /\ exists = {} /\ origin = [n \in Names |-> ""]
    /\ callers = {}

Next ==
    /\ \/ DoNormalize \/ DoGetDataset \/ DoChildren \/ DoCreateFilesystem
       \/ DoCreateVolume \/ DoClone \/ DoRollback \/ DoSnapshot
    /\ UNCHANGED destroyVars

Spec == Init /\ [][Next]_vars

\* one caller in a store nobody else touches
InitDestroy ==
    /\ InitOp /\ InitIdle
    /\ \E s \in Stores : exists = s.exists /\ origin = s.origin
    /\ callers = {"A"}

\* two callers in the same store
InitRace ==
    /\ InitOp /\ InitIdle
    /\ \E s \in Stores : exists = s.exists /\ origin = s.origin
    /\ callers = Callers

NextDestroy ==
    \E c \in Callers :
        \/ Invoke(c) \/ ListChildren(c) \/ SkipChildren(c) \/ EnterChild(c)
        \/ ChildrenDone(c) \/ FetchClone(c) \/ ClonesDone(c) \/ DestroySelf(c)
        \/ CloneNative(c) \/ CreateFilesystemNative(c) \/ CreateVolumeNative(c)
        \/ LookupNew(c) \/ TakeSnapshot(c)

SpecDestroy == InitDestroy /\ [][NextDestroy]_vars

SpecRace == InitRace /\ [][NextDestroy]_vars

(***************************************************************************)
(* Properties of Destroy.                                                  *)
(***************************************************************************)
IsDestroyOf(e, n) == e.call.fn = "destroy" /\ e.call.target = n
Finished(c) == result[c] \notin {"idle", "running"}
Failed(c) == result[c] \notin {"idle", "running", "ok", "panic"}
Both(c) == req[c].fn = "Destroy" /\ opts[c].Recursive /\ opts[c].RecursiveClones

\* caller c saw its native destroy of n succeed after log position lo and before hi
DestroyedBetween(c, n, lo, hi) ==
    \E j \in (lo + 1)..(hi - 1) : IsDestroyOf(log[c][j], n) /\ log[c][j].err = ""

\* C1: with recursive and recursive_clones set, the native destroy of D is
\* issued only after, within the same activation, the Destroy of every
\* dataset its depth-1 listing returned and of every clone in D's clone map
\* has returned success (its own native destroy succeeded).
C1_ChildrenAndClonesBeforeSelf ==
    \A c \in Callers : \A i \in 1..Len(log[c]) :
        LET e == log[c][i]
        IN  (e.call.fn = "destroy" /\ Both(c)) =>
                \A n \in e.listed \cup e.cloneMap : DestroyedBetween(c, n, e.since, i)

\* pool/a with child pool/a/b and clone pool/c of pool/a@s, destroyed to the end
C1_Witness ==
    /\ result["A"] = "ok" /\ root["A"] = "p/a" /\ Both("A")
    /\ origin["p/c"] = "p/a@s" /\ origin["p/a/b"] = ""
    /\ \E i, j, k, l \in 1..Len(log["A"]) :
          /\ i < k /\ j < k /\ l < j
          /\ IsDestroyOf(log["A"][i], "p/a/b")
          /\ IsDestroyOf(log["A"][l], "p/c")
          /\ IsDestroyOf(log["A"][j], "p/a@s")
          /\ IsDestroyOf(log["A"][k], "p/a") /\ log["A"][k].listed = {"p/a/b", "p/a@s"}

\* what holds of a caller from the step that failed on
C2_State ==
    \A c \in {x \in callers : req[x].fn = "Destroy"} :
        /\ \A i \in 1..Len(log[c]) :
              log[c][i].fail # "" =>
                 /\ i = Len(log[c])
                 /\ result[c] = log[c][i].fail
                 /\ stack[c] = <<>>
        /\ Failed(c) =>
              /\ log[c] # <<>> /\ log[c][Len(log[c])].fail = result[c]
              /\ root[c] \in exists
              /\ \A i \in 1..Len(log[c]) :
                    (log[c][i].call.fn = "destroy" /\ log[c][i].err = "")
                        => log[c][i].call.target \notin exists

\* a dataset leaves the store only by a native destroy that succeeded
C2_Step ==
    \A n \in exists \ exists' :
        \E c \in callers :
            /\ Len(log'[c]) = Len(log[c]) + 1
            /\ IsDestroyOf(log'[c][Len(log'[c])], n)
            /\ log'[c][Len(log'[c])].err = ""

\* C2: a failing step of Destroy (listing the children, fetching a clone,
\* the native destroy, at any depth) is the last native call of the whole
\* call, whose result is that failure; what was destroyed stays destroyed and
\* nothing else, the root of the call included, leaves the store.
C2_FirstFailureAborts == [][C2_State' /\ C2_Step]_vars

\* a nested activation failed after something had been destroyed
C2_Witness ==
    /\ result["A"] = Injected /\ root["A"] = "p/a" /\ "p/a" \in exists
    /\ Len(log["A"]) > 2
    /\ log["A"][Len(log["A"])].call.target # "p/a"
    /\ \E i \in 1..Len(log["A"]) :
          log["A"][i].call.fn = "destroy" /\ log["A"][i].err = ""

\* the datasets a recursive Destroy of n with recursive_clones is asked to
\* destroy: n, what hangs under it, and the clones of the snapshots among them
Under(n) == {m \in Names : m = n \/ Parent(m) = n \/ Parent(Parent(m)) = n}
Asked(n) == Under(n) \cup {m \in Names : origin[m] # "" /\ origin[m] \in Under(n)}

\* C9: a lone caller whose native layer never fails on an existing dataset
\* ends Destroy (recursive, recursive_clones) with success, everything asked
\* for gone, and no native call on a dataset this call had destroyed before.
C9_LoneDestroySucceeds ==
    (callers = {"A"} /\ faults = 0 /\ Both("A") /\ Finished("A")) =>
        /\ result["A"] = "ok"
        /\ Asked(root["A"]) \cap exists = {}
        /\ \A i, j \in 1..Len(log["A"]) :
              (i < j /\ log["A"][i].call.fn = "destroy" /\ log["A"][i].err = "")
                  => log["A"][j].call.target # log["A"][i].call.target

\* no clone lies under the filesystem of its origin snapshot
NoCloneInside == \A n \in Names : origin[n] # "" => Parent(n) # Parent(origin[n])

\* C5: two callers destroying recursively in overlapping subtrees each end
\* with success or an error value, never with a crash, and never with
\* success while something asked for is still there.
C5_RaceEndsInValue ==
    (/\ \A c \in Callers : result[c] # "idle" /\ Both(c)
     /\ Asked(root["A"]) \cap Asked(root["B"]) # {}
     /\ NoCloneInside) =>
        \A c \in Callers :
            /\ result[c] # "panic"
            /\ result[c] = "ok" => Asked(root[c]) \cap exists = {}

(***************************************************************************)
(* Properties of the single-call operations.                               *)
(***************************************************************************)
\* C3: GetDataset returns a dataset only when the lookup yields exactly one
\* record, and then that record; zero records fail with the count error for
\* 0 (not found), two or more with the count error for that number
\* (ambiguous), and no dataset is returned.
C3_GetExactlyOne ==
    (op.name = "GetDataset" /\ op.in.err = "") =>
        LET n == Len(op.in.dss)
        IN  /\ n = 1 => /\ op.out.err = "" /\ Len(op.out.val) = 1
                        /\ op.out.val[1].ds = op.in.dss[1]
                        /\ op.out.val[1].Name = op.in.dss[1].Name
            /\ n = 0 => /\ op.out.val = <<>>
                        /\ op.out.err = "expected 1 dataset, got %!s(int=0)"
            /\ n >= 2 => /\ op.out.val = <<>>
                         /\ op.out.err \notin {"", "expected 1 dataset, got %!s(int=0)"}

\* two records came back and none was picked
C3_Witness ==
    /\ op.name = "GetDataset" /\ op.in.err = "" /\ Len(op.in.dss) = 2
    /\ op.in.dss[1] # op.in.dss[2]
    /\ op.out.val = <<>> /\ op.out.err = "expected 1 dataset, got %!s(int=2)"

\* C4: for every depth and whatever listing the native layer returns,
\* D.Children(depth) returns (without crashing) a sequence that does not
\* contain D and contains every other element of the listing.
C4_ChildrenExcludeSelf ==
    (op.name = "Children" /\ op.in.lr.err = "") =>
        /\ ~op.out.panic
        /\ \A i \in DOMAIN op.out.datasets : op.out.datasets[i].Name # op.in.d.Name
        /\ \A j \in DOMAIN op.in.lr.dss :
              op.in.lr.dss[j].Name # op.in.d.Name =>
                 \E i \in DOMAIN op.out.datasets : op.out.datasets[i].ds = op.in.lr.dss[j]

\* C6: the native rollback issued for destroy_more_recent = true differs
\* from the one issued for the same snapshot with destroy_more_recent = false.
C6_RollbackThreadsOption ==
    op.name = "Rollback" =>
        op.out.native # Rollback(op.in.d, ~op.in.destroyMoreRecent, op.in.nativeErr).native

\* C7: the derived mountpoint is "/" + name for a non-snapshot whose native
\* mountpoint is empty, and empty for a snapshot whatever the native value.
C7_MountpointDerivation ==
    op.name = "dsToDataset" =>
        /\ (op.out.Type # DatasetSnapshot /\ op.in.Mountpoint = "")
              => op.out.Mountpoint = "/" \o op.in.Name
        /\ op.out.Type = DatasetSnapshot => op.out.Mountpoint = ""

\* C8: Snapshot issues one native snapshot command, for D's full name + "@" +
\* name, scoped to the first "/"-separated segment of D's name.
C8_SnapshotNaming ==
    op.name = "Snapshot" =>
        LET full == op.in.d.Name
            call == op.out.native[1]
            pool == call.target
        IN  /\ Len(op.out.native) = 1 /\ call.fn = "snapshot"
            /\ call.args.snaps = <<full \o "@" \o op.in.name>>
            /\ ~Contains(pool, "/")
            /\ SubSeq(full, 1, Len(pool)) = pool
            /\ Len(full) = Len(pool) \/ SubSeq(full, Len(pool) + 1, Len(pool) + 1) = "/"
            /\ full = "tank/data" => pool = "tank"

\* tank/data, weekly
C8_Witness ==
    /\ op.name = "Snapshot" /\ op.in.d.Name = "tank/data" /\ op.in.name = "weekly"
    /\ op.out.native[1].args.snaps = <<"tank/data@weekly">>
    /\ op.out.native[1].target = "tank"

\* C10: the native create is issued for the requested type (volume with
\* volsize = size for CreateVolume, filesystem for CreateFilesystem), and a
\* Dataset is returned only from a lookup issued after the create succeeded.
C10_CreatePassesType ==
    op.name \in {"CreateVolume", "CreateFilesystem"} =>
        LET c == op.out.native[1]
        IN  /\ c.fn = "create" /\ c.target = op.in.name
            /\ op.name = "CreateVolume" =>
                  /\ c.args.type = dmuZVOL
                  /\ c.args.props["volsize"] = op.in.size
            /\ op.name = "CreateFilesystem" =>
                  /\ c.args.type = dmuZFS
                  /\ c.args.props = op.in.props
            /\ op.out.val # <<>> =>
                  /\ op.in.createErr = "" /\ Len(op.out.native) = 2
                  /\ op.out.native[2].fn = "list"
                  /\ op.out.native[2].target = op.in.name

=============================================================================
